---- MODULE Spec2Model ----
(***************************************************************************)
(* PPai backend: two Netlify functions (aiCommand, youtubeSearch) behind a *)
(* bearer-token license guard.  JavaScript strings that the code splits,   *)
(* trims or compares are sequences of one-character strings; JavaScript    *)
(* values are tagged records.                                              *)
(***************************************************************************)
EXTENDS Integers, Sequences, FiniteSets, TLC

\* Largest number of comma-separated entries in a LICENSE_TOKENS value.
MaxEntries == 2

\* Largest number of items in an upstream video-search payload.
MaxItems == 2

(***************************************************************************)
(* State of one function process.                                          *)
(*   env         process.env as the code reads it                          *)
(*   startEnv    process.env when the process started (history)            *)
(*   pc          "idle", "awaiting" (suspended at the upstream await) or   *)
(*               "done" (the handler has returned)                         *)
(*   event       the invocation being served                               *)
(*   resp        the value the handler returned                            *)
(*   log         what the invocation wrote with console.error              *)
(*   trace       the checks the invocation evaluated, in order (history)   *)
(*   upstreamReq the request sent to the upstream API                      *)
(*   upstream    what the upstream API answered (history)                  *)
(*   calls       number of upstream calls made by the invocation (history) *)
(***************************************************************************)
VARIABLES env, startEnv, pc, event, resp, log, trace, upstreamReq, upstream,
          calls

vars == <<env, startEnv, pc, event, resp, log, trace, upstreamReq, upstream,
          calls>>

(***************************************************************************)
(* JavaScript values                                                       *)
(***************************************************************************)
Undefined == [t |-> "undefined"]
Null == [t |-> "null"]
Str(s) == [t |-> "string", s |-> s]
Num(n) == [t |-> "number", n |-> n]
Arr(a) == [t |-> "array", a |-> a]
Obj(f) == [t |-> "object", f |-> f]

\* ToBoolean, as applied by `!x`, `a || b` and `if (x)`.
Truthy(v) ==
  CASE v.t = "undefined" -> FALSE
    [] v.t = "null" -> FALSE
    [] v.t = "string" -> v.s # <<>>
    [] v.t = "number" -> v.n # 0
    [] OTHER -> TRUE

\* a || b
Or(a, b) == IF Truthy(a) THEN a ELSE b

\* Reading a property of null or undefined throws a TypeError.
PropThrows(v) == v.t \in {"undefined", "null"}

\* v[name] for the property names the handlers read (query, prompt,
\* context); none of them exists on a number, a string or an array.
GetProp(v, name) ==
  IF v.t = "object" /\ name \in DOMAIN v.f THEN v.f[name] ELSE Undefined

(***************************************************************************)
(* String.prototype.split and String.prototype.trim                        *)
(***************************************************************************)
WhiteSpace == {" ", "\t"}

RECURSIVE SplitFrom(_, _, _)
\* cur is the part being accumulated; "".split(x) is [""]
SplitFrom(s, sep, cur) ==
  IF s = <<>> THEN <<cur>>
  ELSE IF Head(s) = sep THEN <<cur>> \o SplitFrom(Tail(s), sep, <<>>)
  ELSE SplitFrom(Tail(s), sep, Append(cur, Head(s)))

Split(s, sep) == SplitFrom(s, sep, <<>>)

RECURSIVE TrimStart(_)
TrimStart(s) ==
  IF s # <<>> /\ Head(s) \in WhiteSpace THEN TrimStart(Tail(s)) ELSE s

RECURSIVE TrimEnd(_)
TrimEnd(s) ==
  IF s # <<>> /\ s[Len(s)] \in WhiteSpace
  THEN TrimEnd(SubSeq(s, 1, Len(s) - 1)) ELSE s

Trim(s) == TrimEnd(TrimStart(s))

Includes(arr, x) == \E i \in 1..Len(arr) : arr[i] = x

MapTrim(arr) == [i \in 1..Len(arr) |-> Trim(arr[i])]

(***************************************************************************)
(* utils/license                                                           *)
(***************************************************************************)
Bearer == <<"B", "e", "a", "r", "e", "r">>
Development == <<"d", "e", "v", "e", "l", "o", "p", "m", "e", "n", "t">>
Production == <<"p", "r", "o", "d", "u", "c", "t", "i", "o", "n">>

extractToken(authHeader) ==
  IF ~Truthy(authHeader) THEN Null
  ELSE LET parts == Split(authHeader.s, " ")
       IN IF Len(parts) # 2 \/ parts[1] # Bearer THEN Null
          ELSE Str(parts[2])

\* process.env.LICENSE_TOKENS?.split(',').map(t => t.trim()) || []
Whitelist(penv) ==
  IF penv.LICENSE_TOKENS.t = "undefined" THEN <<>>
  ELSE MapTrim(Split(penv.LICENSE_TOKENS.s, ","))

\* validateLicense comparing against the untrimmed entries.
validateLicense_noTrim(token, penv) ==
  IF ~Truthy(token)
  THEN [valid |-> FALSE, reason |-> "Missing authorization token"]
  ELSE LET whitelist == IF penv.LICENSE_TOKENS.t = "undefined" THEN <<>>
                        ELSE Split(penv.LICENSE_TOKENS.s, ",")
       IN IF Len(whitelist) = 0 /\ penv.NODE_ENV = Str(Development)
          THEN [valid |-> TRUE]
          ELSE IF Includes(whitelist, token.s) THEN [valid |-> TRUE]
          ELSE [valid |-> FALSE, reason |-> "Invalid license token"]

\* validateLicense with the development bypass tested before the token.
validateLicense_bypassFirst(token, penv) ==
  LET whitelist == Whitelist(penv)
  IN IF Len(whitelist) = 0 /\ penv.NODE_ENV = Str(Development)
     THEN [valid |-> TRUE]
     ELSE IF ~Truthy(token)
     THEN [valid |-> FALSE, reason |-> "Missing authorization token"]
     ELSE IF Includes(whitelist, token.s) THEN [valid |-> TRUE]
     ELSE [valid |-> FALSE, reason |-> "Invalid license token"]

\* validateLicense working from the configuration read at process start.
validateLicense_cached(token, penv) ==
  IF ~Truthy(token)
  THEN [valid |-> FALSE, reason |-> "Missing authorization token"]
  ELSE LET whitelist == Whitelist(startEnv)
       IN IF Len(whitelist) = 0 /\ startEnv.NODE_ENV = Str(Development)
          THEN [valid |-> TRUE]
          ELSE IF Includes(whitelist, token.s) THEN [valid |-> TRUE]
          ELSE [valid |-> FALSE, reason |-> "Invalid license token"]

validateLicense(token, penv) ==
  IF ~Truthy(token)
  THEN [valid |-> FALSE, reason |-> "Missing authorization token"]
  ELSE LET whitelist == Whitelist(penv)
       IN IF Len(whitelist) = 0 /\ penv.NODE_ENV = Str(Development)
          THEN [valid |-> TRUE]
          ELSE IF Includes(whitelist, token.s) THEN [valid |-> TRUE]
          ELSE [valid |-> FALSE, reason |-> "Invalid license token"]

(***************************************************************************)
(* utils/errors                                                            *)
(***************************************************************************)
\* A thrown or logged value: an Error instance or a plain string.
ErrorObj(message, stack) == [isError |-> TRUE, message |-> message,
                             stack |-> stack]
Plain(text) == [isError |-> FALSE, text |-> text]

\* logError: the lines written with console.error.
logError(error, context) ==
  LET errorMessage == IF error.isError THEN error.message ELSE error.text
  IN IF error.isError /\ error.stack # ""
     THEN << [context |-> context, label |-> "Error:", text |-> errorMessage],
             [context |-> context, label |-> "Stack:", text |-> error.stack] >>
     ELSE << [context |-> context, label |-> "Error:", text |-> errorMessage] >>

(***************************************************************************)
(* JSON.parse on the request bodies of the model, JSON.stringify           *)
(***************************************************************************)
Chars_ab == <<"a", "b">>
Chars_blank == <<" ", "\t">>

Parsed(v) == [ok |-> TRUE, value |-> v]
SyntaxError == [ok |-> FALSE]

JSONparse(text) ==
  CASE text = "{}" -> Parsed(Obj([x \in {} |-> Undefined]))
    [] text = "null" -> Parsed(Null)
    [] text = "7" -> Parsed(Num(7))
    [] text = "[]" -> Parsed(Arr(<<>>))
    [] text = "{\"query\":\"ab\"}" -> Parsed(Obj([query |-> Str(Chars_ab)]))
    [] text = "{\"query\":\" \\t\"}" ->
         Parsed(Obj([query |-> Str(Chars_blank)]))
    [] text = "{\"query\":7}" -> Parsed(Obj([query |-> Num(7)]))
    [] text = "{\"prompt\":\"ab\"}" -> Parsed(Obj([prompt |-> Str(Chars_ab)]))
    [] text = "{\"prompt\":\"\"}" -> Parsed(Obj([prompt |-> Str(<<>>)]))
    [] text = "{\"prompt\":\"ab\",\"context\":{\"k\":7}}" ->
         Parsed(Obj([prompt |-> Str(Chars_ab),
                     context |-> Obj([k |-> Num(7)])]))
    [] OTHER -> SyntaxError

\* JSON.stringify drops the properties whose value is undefined and writes
\* an undefined array element as null; the result is kept as the value a
\* client reads back with JSON.parse.
RECURSIVE Stringify(_)
Stringify(v) ==
  CASE v.t = "object" ->
         Obj([k \in {k \in DOMAIN v.f : v.f[k].t # "undefined"} |->
                Stringify(v.f[k])])
    [] v.t = "array" ->
         Arr([i \in 1..Len(v.a) |->
                IF v.a[i].t = "undefined" THEN Null ELSE Stringify(v.a[i])])
    [] OTHER -> v

JsonBody(v) == [kind |-> "json", value |-> v]
TextBody(s) == [kind |-> "text", text |-> s]

(***************************************************************************)
(* Shared shape of what a handler does before it suspends or returns       *)
(***************************************************************************)
Return(r, l, tr) == [kind |-> "return", resp |-> r, log |-> l, trace |-> tr]
Await(req, l, tr) == [kind |-> "await", req |-> req, log |-> l, trace |-> tr]

\* event.headers.authorization || event.headers.Authorization
AuthHeader(ev) == Or(ev.headers.authorization, ev.headers.Authorization)

\* event.body || '{}'
BodyText(ev) == IF ev.body.t = "text" /\ ev.body.raw # "" THEN ev.body.raw
                ELSE "{}"

\* !v || typeof v !== 'string' || v.trim().length === 0
InvalidField(v) ==
  \/ ~Truthy(v)
  \/ v.t # "string"
  \/ Len(Trim(v.s)) = 0

(***************************************************************************)
(* youtubeSearch                                                           *)
(***************************************************************************)
ytCorsHeaders ==
  [h \in {"Access-Control-Allow-Origin", "Access-Control-Allow-Headers",
          "Access-Control-Allow-Methods"} |->
     CASE h = "Access-Control-Allow-Origin" -> "*"
       [] h = "Access-Control-Allow-Headers" -> "Content-Type, Authorization"
       [] h = "Access-Control-Allow-Methods" -> "POST, OPTIONS"]

\* ytResponse that forgets the CORS headers on error responses.
ytResponse_noCors(status, error, message) ==
  [statusCode |-> status,
   headers |-> ("Content-Type" :> "application/json"),
   body |-> JsonBody([error |-> error, message |-> message])]

ytResponse(status, error, message) ==
  [statusCode |-> status, headers |-> ytCorsHeaders,
   body |-> JsonBody([error |-> error, message |-> message])]

\* ytCatch that passes the caught error's message on to the client.
ytCatch_leaky(error, tr) ==
  Return(ytResponse(500, "Internal Server Error",
                    IF error.isError THEN error.message ELSE error.text),
         logError(error, "youtubeSearch"), tr)

\* The catch clause of the handler's try block.
ytCatch(error, tr) ==
  Return(ytResponse(500, "Internal Server Error",
                    "An error occurred processing your request"),
         logError(error, "youtubeSearch"), tr)

\* The upstream call: the search URL handed to fetch.
ytFetch(body, apiKey) ==
  Await([api |-> "https://www.googleapis.com/youtube/v3/search",
         part |-> "snippet", q |-> GetProp(body, "query"),
         type |-> "video", maxResults |-> "10", key |-> apiKey],
        <<>>,
        <<"options", "method", "license", "parse", "field", "key",
          "upstream">>)

\* ytKey that tests `apiKey === undefined` instead of `!apiKey`.
ytKey_undefinedOnly(penv, body) ==
  LET apiKey == penv.YOUTUBE_API_KEY
  IN IF apiKey.t = "undefined"
     THEN Return(ytResponse(500, "Internal Server Error",
                            "Server configuration error"),
                 logError(Plain("YOUTUBE_API_KEY not set in environment variables"),
                          "youtubeSearch"),
                 <<"options", "method", "license", "parse", "field", "key">>)
     ELSE ytFetch(body, apiKey)

\* ytKey that calls the upstream API without testing the key.
ytKey_noCheck(penv, body) == ytFetch(body, penv.YOUTUBE_API_KEY)

ytKey(penv, body) ==
  LET apiKey == penv.YOUTUBE_API_KEY
  IN IF ~Truthy(apiKey)
     THEN Return(ytResponse(500, "Internal Server Error",
                            "Server configuration error"),
                 logError(Plain("YOUTUBE_API_KEY not set in environment variables"),
                          "youtubeSearch"),
                 <<"options", "method", "license", "parse", "field", "key">>)
     ELSE ytFetch(body, apiKey)

\* ytBody without the inner try/catch around JSON.parse: the SyntaxError
\* reaches the handler's catch clause.
ytBody_noInnerTry(ev, penv) ==
  LET parsed == JSONparse(BodyText(ev))
  IN IF ~parsed.ok
     THEN ytCatch(ErrorObj("Unexpected token in JSON", "at JSON.parse"),
                  <<"options", "method", "license", "parse">>)
     ELSE IF PropThrows(parsed.value)
     THEN ytCatch(ErrorObj("Cannot read properties of null (reading 'query')",
                           "at handler (youtubeSearch)"),
                  <<"options", "method", "license", "parse", "field">>)
     ELSE IF InvalidField(GetProp(parsed.value, "query"))
     THEN Return(ytResponse(400, "Bad Request",
                            "Missing or invalid \"query\" field"),
                 <<>>, <<"options", "method", "license", "parse", "field">>)
     ELSE ytKey(penv, parsed.value)

ytBody(ev, penv) ==
  LET parsed == JSONparse(BodyText(ev))
  IN IF ~parsed.ok
     THEN Return(ytResponse(400, "Bad Request", "Invalid JSON in request body"),
                 <<>>, <<"options", "method", "license", "parse">>)
     ELSE IF PropThrows(parsed.value)
     THEN ytCatch(ErrorObj("Cannot read properties of null (reading 'query')",
                           "at handler (youtubeSearch)"),
                  <<"options", "method", "license", "parse", "field">>)
     ELSE IF InvalidField(GetProp(parsed.value, "query"))
     THEN Return(ytResponse(400, "Bad Request",
                            "Missing or invalid \"query\" field"),
                 <<>>, <<"options", "method", "license", "parse", "field">>)
     ELSE ytKey(penv, parsed.value)

ytLicense(ev, penv) ==
  LET token == extractToken(AuthHeader(ev))
      licenseCheck == validateLicense(token, penv)
  IN IF ~licenseCheck.valid
     THEN Return(ytResponse(401, "Unauthorized", licenseCheck.reason),
                 <<>>, <<"options", "method", "license">>)
     ELSE ytBody(ev, penv)

\* youtubeSearch whose method gate also lets GET through.
youtubeSearch_getAllowed(ev, penv) ==
  IF ev.httpMethod = "OPTIONS"
  THEN Return([statusCode |-> 200, headers |-> ytCorsHeaders,
               body |-> TextBody("")], <<>>, <<"options">>)
  ELSE IF ev.httpMethod \notin {"POST", "GET"}
  THEN Return(ytResponse(405, "Method Not Allowed",
                         "Only POST requests are allowed"),
              <<>>, <<"options", "method">>)
  ELSE ytLicense(ev, penv)

\* The handler up to its first return or to the upstream await.
youtubeSearch(ev, penv) ==
  IF ev.httpMethod = "OPTIONS"
  THEN Return([statusCode |-> 200, headers |-> ytCorsHeaders,
               body |-> TextBody("")], <<>>, <<"options">>)
  ELSE IF ev.httpMethod # "POST"
  THEN Return(ytResponse(405, "Method Not Allowed",
                         "Only POST requests are allowed"),
              <<>>, <<"options", "method">>)
  ELSE ytLicense(ev, penv)

\* x?.name
Opt(v, name) == IF PropThrows(v) THEN Undefined ELSE GetProp(v, name)

WatchPrefix ==
  <<"h", "t", "t", "p", "s", ":", "/", "/", "w", "w", "w", ".", "y", "o",
    "u", "t", "u", "b", "e", ".", "c", "o", "m", "/", "w", "a", "t", "c",
    "h", "?", "v", "=">>

\* ytResult whose medium thumbnail is copied from the high one.
ytResult_mediumFromHigh(item) ==
  LET snippet == GetProp(item, "snippet")
      thumbnails == Opt(snippet, "thumbnails")
  IN Obj([title |-> Or(Opt(snippet, "title"), Str(<<>>)),
          url |-> Str(WatchPrefix \o
                      Or(Opt(GetProp(item, "id"), "videoId"), Str(<<>>)).s),
          channel |-> Or(Opt(snippet, "channelTitle"), Str(<<>>)),
          thumbnails |-> Obj([default |-> Opt(Opt(thumbnails, "default"), "url"),
                              medium |-> Opt(Opt(thumbnails, "high"), "url"),
                              high |-> Opt(Opt(thumbnails, "high"), "url")])])

\* One element of the results array.
ytResult(item) ==
  LET snippet == GetProp(item, "snippet")
      thumbnails == Opt(snippet, "thumbnails")
  IN Obj([title |-> Or(Opt(snippet, "title"), Str(<<>>)),
          url |-> Str(WatchPrefix \o
                      Or(Opt(GetProp(item, "id"), "videoId"), Str(<<>>)).s),
          channel |-> Or(Opt(snippet, "channelTitle"), Str(<<>>)),
          thumbnails |-> Obj([default |-> Opt(Opt(thumbnails, "default"), "url"),
                              medium |-> Opt(Opt(thumbnails, "medium"), "url"),
                              high |-> Opt(Opt(thumbnails, "high"), "url")])])

ytDoneTrace == <<"options", "method", "license", "parse", "field", "key",
                 "upstream">>

\* The handler after fetch has settled.
youtubeSearchResume(outcome) ==
  IF outcome.kind = "reject" THEN ytCatch(outcome.error, ytDoneTrace)
  ELSE IF ~outcome.ok
  THEN Return(ytResponse(500, "Internal Server Error",
                         "Failed to search YouTube"),
              logError(Plain(<<"YouTube API error:", outcome.status,
                               outcome.text>>), "youtubeSearch"),
              ytDoneTrace)
  ELSE IF ~outcome.json.ok THEN ytCatch(outcome.json.error, ytDoneTrace)
  ELSE LET data == outcome.json.value
       IN IF PropThrows(data)
          THEN ytCatch(ErrorObj("Cannot read properties of null (reading 'items')",
                                "at handler (youtubeSearch)"), ytDoneTrace)
          ELSE LET items == Or(GetProp(data, "items"), Arr(<<>>))
               IN IF items.t # "array"
                  THEN ytCatch(ErrorObj("map is not a function",
                                        "at handler (youtubeSearch)"),
                               ytDoneTrace)
                  ELSE IF \E i \in 1..Len(items.a) : PropThrows(items.a[i])
                  THEN ytCatch(ErrorObj("Cannot read properties of null (reading 'snippet')",
                                        "at Array.map"), ytDoneTrace)
                  ELSE Return(
                    [statusCode |-> 200,
                     headers |-> ytCorsHeaders @@
                                 ("Content-Type" :> "application/json"),
                     body |-> JsonBody(Stringify(Obj(
                       [results |-> Arr([i \in 1..Len(items.a) |->
                                           ytResult(items.a[i])])])))],
                    <<>>, ytDoneTrace)

(***************************************************************************)
(* aiCommand                                                               *)
(***************************************************************************)
aiCorsHeaders ==
  [h \in {"Access-Control-Allow-Origin", "Access-Control-Allow-Headers",
          "Access-Control-Allow-Methods"} |->
     CASE h = "Access-Control-Allow-Origin" -> "*"
       [] h = "Access-Control-Allow-Headers" -> "Content-Type, Authorization"
       [] h = "Access-Control-Allow-Methods" -> "POST, OPTIONS"]

aiResponse(status, error, message) ==
  [statusCode |-> status, headers |-> aiCorsHeaders,
   body |-> JsonBody([error |-> error, message |-> message])]

\* The catch clause of the handler's try block.
aiCatch(error, tr) ==
  Return(aiResponse(500, "Internal Server Error",
                    "An error occurred processing your request"),
         logError(error, "aiCommand"), tr)

\* The upstream call: model.generateContent(fullPrompt).  fullPrompt is kept
\* as the pieces the template string concatenates.
aiGenerate(body, apiKey) ==
  LET prompt == GetProp(body, "prompt")
      context == GetProp(body, "context")
      fullPrompt == IF Truthy(context)
                    THEN <<"Context: ", Stringify(context),
                           "\n\nUser Request: ", prompt>>
                    ELSE <<prompt>>
  IN Await([api |-> "gemini-pro", apiKey |-> apiKey, prompt |-> fullPrompt],
           <<>>,
           <<"options", "method", "license", "parse", "field", "key",
             "upstream">>)

aiKey(penv, body) ==
  LET apiKey == penv.GEMINI_API_KEY
  IN IF ~Truthy(apiKey)
     THEN Return(aiResponse(500, "Internal Server Error",
                            "Server configuration error"),
                 logError(Plain("GEMINI_API_KEY not set in environment variables"),
                          "aiCommand"),
                 <<"options", "method", "license", "parse", "field", "key">>)
     ELSE aiGenerate(body, apiKey)

aiBody(ev, penv) ==
  LET parsed == JSONparse(BodyText(ev))
  IN IF ~parsed.ok
     THEN Return(aiResponse(400, "Bad Request", "Invalid JSON in request body"),
                 <<>>, <<"options", "method", "license", "parse">>)
     ELSE IF PropThrows(parsed.value)
     THEN aiCatch(ErrorObj("Cannot read properties of null (reading 'prompt')",
                           "at handler (aiCommand)"),
                  <<"options", "method", "license", "parse", "field">>)
     ELSE IF InvalidField(GetProp(parsed.value, "prompt"))
     THEN Return(aiResponse(400, "Bad Request",
                            "Missing or invalid \"prompt\" field"),
                 <<>>, <<"options", "method", "license", "parse", "field">>)
     ELSE aiKey(penv, parsed.value)

aiLicense(ev, penv) ==
  LET token == extractToken(AuthHeader(ev))
      licenseCheck == validateLicense(token, penv)
  IN IF ~licenseCheck.valid
     THEN Return(aiResponse(401, "Unauthorized", licenseCheck.reason),
                 <<>>, <<"options", "method", "license">>)
     ELSE aiBody(ev, penv)

\* The handler up to its first return or to the upstream await.
aiCommand(ev, penv) ==
  IF ev.httpMethod = "OPTIONS"
  THEN Return([statusCode |-> 200, headers |-> aiCorsHeaders,
               body |-> TextBody("")], <<>>, <<"options">>)
  ELSE IF ev.httpMethod # "POST"
  THEN Return(aiResponse(405, "Method Not Allowed",
                         "Only POST requests are allowed"),
              <<>>, <<"options", "method">>)
  ELSE aiLicense(ev, penv)

aiDoneTrace == <<"options", "method", "license", "parse", "field", "key",
                 "upstream">>

\* The handler after generateContent / result.response / text() settled.
aiCommandResume(outcome) ==
  IF outcome.kind = "reject" THEN aiCatch(outcome.error, aiDoneTrace)
  ELSE Return([statusCode |-> 200,
               headers |-> aiCorsHeaders @@
                           ("Content-Type" :> "application/json"),
               body |-> JsonBody(Stringify(Obj([result |-> outcome.text])))],
              <<>>, aiDoneTrace)

(***************************************************************************)
(* Inputs: configuration values, invocations, upstream answers             *)
(***************************************************************************)
RECURSIVE Join(_, _)
Join(parts, sep) ==
  IF Len(parts) = 1 THEN parts[1]
  ELSE parts[1] \o <<sep>> \o Join(Tail(parts), sep)

\* What an operator may write between two commas of LICENSE_TOKENS.
EntryTexts == { <<"a">>, <<" ", "b", " ">> }

EntryLists == UNION { [1..n -> EntryTexts] : n \in 1..MaxEntries }

\* Unset, set to the empty string, or a comma-separated list.
LicenseValues ==
  {Undefined, Str(<<>>)} \cup { Str(Join(es, ",")) : es \in EntryLists }

NodeEnvValues == {Undefined, Str(Development), Str(Production)}

KeyValues == {Undefined, Str(<<>>), Str(<<"k">>)}

Envs == [LICENSE_TOKENS : LicenseValues, NODE_ENV : NodeEnvValues,
         GEMINI_API_KEY : KeyValues, YOUTUBE_API_KEY : KeyValues]

HeaderValues ==
  { Undefined, Str(<<>>), Str(Bearer),
    Str(Bearer \o <<" ">>),
    Str(Bearer \o <<" ", "a">>),
    Str(Bearer \o <<" ", "b">>),
    Str(Bearer \o <<" ", " ", "a">>),
    Str(<<"b", "e", "a", "r", "e", "r", " ", "a">>),
    Str(<<"B", "a", "s", "i", "c", " ", "a">>) }

HeaderPairs ==
  { [authorization |-> h, Authorization |-> Undefined] : h \in HeaderValues }
  \cup
  { [authorization |-> Undefined, Authorization |-> Str(Bearer \o <<" ", "a">>)],
    [authorization |-> Str(<<>>), Authorization |-> Str(Bearer \o <<" ", "b">>)],
    [authorization |-> Str(Bearer \o <<" ", "b">>),
     Authorization |-> Str(Bearer \o <<" ", "a">>)] }

BodyTexts ==
  { "", "{}", "null", "7", "[]", "{bad",
    "{\"query\":\"ab\"}", "{\"query\":\" \\t\"}", "{\"query\":7}",
    "{\"prompt\":\"ab\"}", "{\"prompt\":\"\"}",
    "{\"prompt\":\"ab\",\"context\":{\"k\":7}}" }

Bodies == {Null} \cup { [t |-> "text", raw |-> b] : b \in BodyTexts }

Methods == {"OPTIONS", "POST", "GET", "post"}

Functions == {"aiCommand", "youtubeSearch"}

Events == [fn : Functions, httpMethod : Methods, headers : HeaderPairs,
           body : Bodies]

UpstreamErrors ==
  { ErrorObj("fetch failed", "at node:internal/deps/undici"),
    ErrorObj("API key not valid. Please pass a valid API key.",
             "at makeRequest") }

FullItem ==
  Obj([id |-> Obj([videoId |-> Str(<<"v", "1">>)]),
       snippet |-> Obj([title |-> Str(<<"T">>),
                        channelTitle |-> Str(<<"C">>),
                        thumbnails |->
                          Obj([default |-> Obj([url |-> Str(<<"d">>)]),
                               medium |-> Obj([url |-> Str(<<"m">>)]),
                               high |-> Obj([url |-> Str(<<"h">>)])])])])

\* No id, no channelTitle, no default thumbnail, a medium thumbnail
\* without url.
SparseItem ==
  Obj([snippet |-> Obj([title |-> Str(<<"U">>),
                        thumbnails |->
                          Obj([medium |-> Obj([x \in {} |-> Undefined]),
                               high |-> Obj([url |-> Str(<<"g">>)])])])])

\* An id without videoId and no snippet.
BareItem == Obj([id |-> Obj([x \in {} |-> Undefined])])

ItemShapes == {FullItem, SparseItem, BareItem, Null}

ItemLists == UNION { [1..n -> ItemShapes] : n \in 0..MaxItems }

\* What response.json() resolves to: a payload without items, null, or a
\* payload with a list of items.
YtData ==
  { Obj([x \in {} |-> Undefined]), Null }
  \cup { Obj([items |-> Arr(its)]) : its \in ItemLists }

YtOutcomes ==
  { [kind |-> "reject", error |-> e] : e \in UpstreamErrors }
  \cup
  { [kind |-> "response", ok |-> FALSE, status |-> st, text |-> tx,
     json |-> SyntaxError] :
      st \in {403, 500}, tx \in {"quotaExceeded", "backendError"} }
  \cup
  { [kind |-> "response", ok |-> TRUE, status |-> 200, text |-> "",
     json |-> Parsed(d)] : d \in YtData }
  \cup
  { [kind |-> "response", ok |-> TRUE, status |-> 200, text |-> "",
     json |-> [ok |-> FALSE,
               error |-> ErrorObj("Unexpected token < in JSON", "at json")]] }

AiOutcomes ==
  { [kind |-> "reject", error |-> e] : e \in UpstreamErrors }
  \cup
  { [kind |-> "text", text |-> Str(tx)] : tx \in {<<>>, <<"o", "k">>} }

Outcomes(fn) == IF fn = "aiCommand" THEN AiOutcomes ELSE YtOutcomes

None == [t |-> "none"]

(***************************************************************************)
(* The process                                                             *)
(***************************************************************************)
Handler(ev, penv) ==
  IF ev.fn = "aiCommand" THEN aiCommand(ev, penv) ELSE youtubeSearch(ev, penv)

Resume(fn, outcome) ==
  IF fn = "aiCommand" THEN aiCommandResume(outcome)
  ELSE youtubeSearchResume(outcome)

Init ==
  /\ env \in Envs
  /\ startEnv = env
  /\ pc = "idle"
  /\ event = None
  /\ resp = None
  /\ log = <<>>
  /\ trace = <<>>
  /\ upstreamReq = None
  /\ upstream = None
  /\ calls = 0

\* The platform invokes the handler with ev; the handler runs until it
\* returns or suspends at its only await.
Serve(ev) ==
  /\ pc = "idle"
  /\ LET r == Handler(ev, env)
     IN /\ event' = ev
        /\ log' = r.log
        /\ trace' = r.trace
        /\ IF r.kind = "return"
           THEN /\ pc' = "done"
                /\ resp' = r.resp
                /\ upstreamReq' = None
                /\ calls' = 0
           ELSE /\ pc' = "awaiting"
                /\ resp' = None
                /\ upstreamReq' = r.req
                /\ calls' = 1
  /\ UNCHANGED <<env, startEnv, upstream>>

Invoke == \E ev \in Events : Serve(ev)

\* The upstream call settles and the handler runs to its return.
UpstreamReturn ==
  /\ pc = "awaiting"
  /\ \E o \in Outcomes(event.fn) :
       LET r == Resume(event.fn, o)
       IN /\ upstream' = o
          /\ log' = log \o r.log
          /\ trace' = r.trace
          /\ IF r.kind = "return"
             THEN /\ pc' = "done"
                  /\ resp' = r.resp
                  /\ UNCHANGED <<upstreamReq, calls>>
             ELSE /\ pc' = "awaiting"
                  /\ resp' = resp
                  /\ upstreamReq' = r.req
                  /\ calls' = calls + 1
  /\ UNCHANGED <<env, startEnv, event>>

\* The response has been delivered; the process waits for the next event.
Finish ==
  /\ pc = "done"
  /\ pc' = "idle"
  /\ event' = None
  /\ resp' = None
  /\ log' = <<>>
  /\ trace' = <<>>
  /\ upstreamReq' = None
  /\ upstream' = None
  /\ calls' = 0
  /\ UNCHANGED <<env, startEnv>>

Next == Invoke \/ UpstreamReturn \/ Finish

Spec == Init /\ [][Next]_vars

(***************************************************************************)
(* The same process when its configuration is changed while it runs: the   *)
(* operator (or a local .env reload) rewrites LICENSE_TOKENS or NODE_ENV   *)
(* between two invocations.  The invocations are licensed-looking POSTs    *)
(* with a well-formed body, and both server keys are set.                  *)
(***************************************************************************)
SetLicenseTokens ==
  /\ pc = "idle"
  /\ \E v \in LicenseValues :
       /\ v # env.LICENSE_TOKENS
       /\ env' = [env EXCEPT !.LICENSE_TOKENS = v]
  /\ UNCHANGED <<startEnv, pc, event, resp, log, trace, upstreamReq,
                 upstream, calls>>

SetNodeEnv ==
  /\ pc = "idle"
  /\ \E v \in NodeEnvValues :
       /\ v # env.NODE_ENV
       /\ env' = [env EXCEPT !.NODE_ENV = v]
  /\ UNCHANGED <<startEnv, pc, event, resp, log, trace, upstreamReq,
                 upstream, calls>>

ProbeEvents ==
  { ev \in Events :
      /\ ev.httpMethod = "POST"
      /\ ev.body = [t |-> "text",
                    raw |-> IF ev.fn = "aiCommand" THEN "{\"prompt\":\"ab\"}"
                            ELSE "{\"query\":\"ab\"}"] }

InvokeProbe == \E ev \in ProbeEvents : Serve(ev)

InitReconfig ==
  /\ Init
  /\ env.GEMINI_API_KEY = Str(<<"k">>)
  /\ env.YOUTUBE_API_KEY = Str(<<"k">>)

NextReconfig ==
  InvokeProbe \/ UpstreamReturn \/ Finish \/ SetLicenseTokens \/ SetNodeEnv

SpecReconfig == InitReconfig /\ [][NextReconfig]_vars

(***************************************************************************)
(* Vocabulary of the properties                                            *)
(***************************************************************************)
InFlight == pc # "idle"
Returned == pc = "done"
IsPost == InFlight /\ event.httpMethod = "POST"

CorsHeaders ==
  [h \in {"Access-Control-Allow-Origin", "Access-Control-Allow-Headers",
          "Access-Control-Allow-Methods"} |->
     CASE h = "Access-Control-Allow-Origin" -> "*"
       [] h = "Access-Control-Allow-Headers" -> "Content-Type, Authorization"
       [] h = "Access-Control-Allow-Methods" -> "POST, OPTIONS"]

ErrorResponse(status, error, message) ==
  [statusCode |-> status, headers |-> CorsHeaders,
   body |-> [kind |-> "json",
             value |-> [error |-> error, message |-> message]]]

\* The request carries a non-empty bearer token: the Authorization header is
\* exactly "Bearer", one space, and a non-empty token without spaces.
HasBearerToken(ev) ==
  LET h == AuthHeader(ev)
  IN /\ h.t = "string"
     /\ LET parts == Split(h.s, " ")
        IN Len(parts) = 2 /\ parts[1] = Bearer /\ parts[2] # <<>>

BearerToken(ev) == Split(AuthHeader(ev).s, " ")[2]

\* The comma-separated entries of LICENSE_TOKENS, each one trimmed.
TrimmedEntries(penv) ==
  IF penv.LICENSE_TOKENS.t = "undefined" THEN {}
  ELSE LET parts == Split(penv.LICENSE_TOKENS.s, ",")
       IN { Trim(parts[i]) : i \in 1..Len(parts) }

RawEntries(penv) ==
  IF penv.LICENSE_TOKENS.t = "undefined" THEN {}
  ELSE LET parts == Split(penv.LICENSE_TOKENS.s, ",")
       IN { parts[i] : i \in 1..Len(parts) }

DevMode(penv) == penv.NODE_ENV = Str(Development)

Answered401 == Returned /\ resp.statusCode = 401

\* The guard let the request through, as the code decides it.
PassesGuard(ev, penv) ==
  validateLicense(extractToken(AuthHeader(ev)), penv).valid

RequiredField(fn) == IF fn = "aiCommand" THEN "prompt" ELSE "query"

FieldMessage(fn) ==
  IF fn = "aiCommand" THEN "Missing or invalid \"prompt\" field"
  ELSE "Missing or invalid \"query\" field"

ServerKey(fn, penv) ==
  IF fn = "aiCommand" THEN penv.GEMINI_API_KEY ELSE penv.YOUTUBE_API_KEY

BodyParses(ev) == JSONparse(BodyText(ev)).ok

\* The required field of a parsed body: present, a string, not blank.
FieldGood(ev) ==
  LET v == JSONparse(BodyText(ev)).value
      name == RequiredField(ev.fn)
  IN /\ v.t = "object"
     /\ name \in DOMAIN v.f
     /\ v.f[name].t = "string"
     /\ \E i \in 1..Len(v.f[name].s) : v.f[name].s[i] \notin WhiteSpace

(***************************************************************************)
(* C1..C3: the license guard                                               *)
(***************************************************************************)
\* C1: a POST with a non-empty bearer token, when LICENSE_TOKENS is set or
\* the process is not in development mode, passes the license guard exactly
\* when the token equals one of the trimmed comma-separated entries; when it
\* does not, the response is 401 Unauthorized / "Invalid license token".
C1_TokenMembership ==
  (/\ IsPost
   /\ HasBearerToken(event)
   /\ (env.LICENSE_TOKENS.t # "undefined" \/ ~DevMode(env)))
  => IF BearerToken(event) \in TrimmedEntries(env)
     THEN ~Answered401
     ELSE /\ Returned
          /\ resp = ErrorResponse(401, "Unauthorized", "Invalid license token")

\* A token that matches an entry only after the entry is trimmed got through.
C1_Witness ==
  /\ IsPost
  /\ HasBearerToken(event)
  /\ BearerToken(event) \in TrimmedEntries(env)
  /\ BearerToken(event) \notin RawEntries(env)
  /\ ~DevMode(env)
  /\ Returned
  /\ resp.statusCode # 401

C3_DevBypassAll ==
  (/\ IsPost
   /\ DevMode(env)
   /\ TrimmedEntries(env) \subseteq {<<>>})
  => ~Answered401

(***************************************************************************)
(* C4..C7: method gate, body validation, server key                        *)
(***************************************************************************)
\* C4: OPTIONS is answered 200 with an empty body and any method other than
\* POST and OPTIONS is answered 405, the same for every header, body and
\* configuration, without a license check or an upstream call.
C4_MethodGate ==
  (InFlight /\ event.httpMethod # "POST")
  => /\ Returned
     /\ resp = IF event.httpMethod = "OPTIONS"
               THEN [statusCode |-> 200, headers |-> CorsHeaders,
                     body |-> [kind |-> "text", text |-> ""]]
               ELSE ErrorResponse(405, "Method Not Allowed",
                                  "Only POST requests are allowed")
     /\ calls = 0
     /\ upstreamReq = None
     /\ log = <<>>

\* A GET or lower-case "post" that would otherwise be served in full got 405.
C4_Witness ==
  /\ Returned
  /\ event.httpMethod \in {"GET", "post"}
  /\ PassesGuard(event, env)
  /\ BodyParses(event)
  /\ FieldGood(event)
  /\ Truthy(ServerKey(event.fn, env))
  /\ resp.statusCode = 405

\* C5: a licensed POST whose body is well-formed JSON (or absent or empty)
\* and whose required field is missing, not a string, empty or blank is
\* answered 400 Bad Request with the field message of its handler.
C5_MissingField ==
  (/\ IsPost
   /\ PassesGuard(event, env)
   /\ BodyParses(event)
   /\ ~FieldGood(event))
  => /\ Returned
     /\ resp = ErrorResponse(400, "Bad Request", FieldMessage(event.fn))

\* C6: a licensed POST whose non-empty body is not JSON is answered 400 with
\* "Invalid JSON in request body", and no upstream call is made.
C6_InvalidJson ==
  (/\ IsPost
   /\ PassesGuard(event, env)
   /\ event.body.t = "text"
   /\ event.body.raw # ""
   /\ ~JSONparse(event.body.raw).ok)
  => /\ Returned
     /\ resp = ErrorResponse(400, "Bad Request", "Invalid JSON in request body")
     /\ calls = 0
     /\ upstreamReq = None

C6_Witness ==
  /\ IsPost
  /\ PassesGuard(event, env)
  /\ event.body = [t |-> "text", raw |-> "{bad"]
  /\ Truthy(ServerKey(event.fn, env))
  /\ Returned
  /\ resp.statusCode = 400

\* C7: a licensed POST with a valid body, when the handler's server key is
\* unset or empty, is answered 500 with "Server configuration error"; the
\* response is the same for both handlers, names no key, and no upstream
\* call is made.
C7_MissingServerKey ==
  (/\ IsPost
   /\ PassesGuard(event, env)
   /\ BodyParses(event)
   /\ FieldGood(event)
   /\ ~Truthy(ServerKey(event.fn, env)))
  => /\ Returned
     /\ resp = ErrorResponse(500, "Internal Server Error",
                             "Server configuration error")
     /\ calls = 0
     /\ upstreamReq = None

\* The key is set but empty, and the other handler's key is present.
C7_Witness ==
  /\ IsPost
  /\ PassesGuard(event, env)
  /\ BodyParses(event)
  /\ FieldGood(event)
  /\ ServerKey(event.fn, env) = Str(<<>>)
  /\ Returned
  /\ resp.statusCode = 500
  /\ log # <<>>

(***************************************************************************)
(* C8, C10: error boundary and CORS headers                                *)
(***************************************************************************)
\* The upstream call failed: fetch or generateContent rejected, the upstream
\* status was not ok, or the upstream payload was not JSON.
UpstreamFailed ==
  /\ Returned
  /\ upstream # None
  /\ \/ upstream.kind = "reject"
     \/ upstream.kind = "response" /\ (~upstream.ok \/ ~upstream.json.ok)

\* The handler's own code threw: it read a property of a null request body,
\* of a null upstream payload or of a null item.
InternalException ==
  /\ Returned
  /\ IsPost
  /\ PassesGuard(event, env)
  /\ \/ BodyParses(event) /\ JSONparse(BodyText(event)).value.t = "null"
     \/ /\ upstream # None
        /\ upstream.kind = "response"
        /\ upstream.ok
        /\ upstream.json.ok
        /\ LET d == upstream.json.value
           IN \/ d.t = "null"
              \/ /\ "items" \in DOMAIN d.f
                 /\ \E i \in 1..Len(d.f.items.a) : d.f.items.a[i].t = "null"

\* C8: every upstream failure and every exception raised after the method
\* gate is answered 500 Internal Server Error with a fixed generic message:
\* the response is a constant per failure path, so two executions that
\* differ only in the error's status, text, message or stack get identical
\* responses.
C8_GenericFailure ==
  (UpstreamFailed \/ InternalException)
  => resp = ErrorResponse(500, "Internal Server Error",
                IF /\ upstream # None
                   /\ upstream.kind = "response"
                   /\ ~upstream.ok
                THEN "Failed to search YouTube"
                ELSE "An error occurred processing your request")

\* The upstream call rejected and the detail went to the log.
C8_Witness ==
  /\ UpstreamFailed
  /\ upstream.kind = "reject"
  /\ event.fn = "youtubeSearch"
  /\ resp.statusCode = 500
  /\ \E i \in 1..Len(log) : log[i].text = upstream.error.message

\* C10: every response of either handler carries the three CORS headers
\* with their fixed values.
C10_CorsOnEveryResponse ==
  Returned
  => \A h \in DOMAIN CorsHeaders :
       h \in DOMAIN resp.headers /\ resp.headers[h] = CorsHeaders[h]

\* An error response produced past the method gate.
C10_Witness ==
  /\ Returned
  /\ event.fn = "youtubeSearch"
  /\ resp.statusCode = 401
  /\ DOMAIN resp.headers = DOMAIN CorsHeaders

(***************************************************************************)
(* C9: the whitelist over the process lifetime                             *)
(***************************************************************************)
\* What the guard decides for ev under the configuration penv.
LicenseOutcome(ev, penv) ==
  /\ HasBearerToken(ev)
  /\ \/ penv.LICENSE_TOKENS.t = "undefined" /\ DevMode(penv)
     \/ BearerToken(ev) \in TrimmedEntries(penv)

Has(v, k) == v.t = "object" /\ k \in DOMAIN v.f

\* The upstream answered ok with a payload of the YouTubeApiResponse shape:
\* an object whose items, when present, is a list of objects.
SearchSucceeded ==
  /\ Returned
  /\ event.fn = "youtubeSearch"
  /\ upstream # None
  /\ upstream.kind = "response"
  /\ upstream.ok
  /\ upstream.json.ok
  /\ upstream.json.value.t = "object"
  /\ Has(upstream.json.value, "items")
       => \A i \in 1..Len(upstream.json.value.f.items.a) :
            upstream.json.value.f.items.a[i].t = "object"

UpstreamItems ==
  IF Has(upstream.json.value, "items") THEN upstream.json.value.f.items.a
  ELSE <<>>

UpstreamVideoId(item) ==
  IF Has(item, "id") /\ Has(item.f.id, "videoId") THEN item.f.id.f.videoId.s
  ELSE <<>>

UpstreamSnippetText(item, k) ==
  IF Has(item, "snippet") /\ Has(item.f.snippet, k) THEN item.f.snippet.f[k].s
  ELSE <<>>

UpstreamHasThumb(item, r) ==
  /\ Has(item, "snippet")
  /\ Has(item.f.snippet, "thumbnails")
  /\ Has(item.f.snippet.f.thumbnails, r)
  /\ Has(item.f.snippet.f.thumbnails.f[r], "url")

\* C11: for a successful upstream response with n items (0 when items is
\* absent) youtubeSearch answers 200 with exactly n results in the same
\* order; result i has the watch url of item i's videoId, the item's title
\* and channelTitle ("" when absent) and the three thumbnail urls, a
\* resolution absent upstream being undefined (no property) in the result.
C11_ResultsMapping ==
  SearchSucceeded
  => /\ resp.statusCode = 200
     /\ resp.body.kind = "json"
     /\ DOMAIN resp.body.value.f = {"results"}
     /\ LET results == resp.body.value.f.results.a
        IN /\ Len(results) = Len(UpstreamItems)
           /\ \A i \in 1..Len(UpstreamItems) :
                LET item == UpstreamItems[i]
                    res == results[i].f
                IN /\ DOMAIN res = {"title", "url", "channel", "thumbnails"}
                   /\ res.url = Str(WatchPrefix \o UpstreamVideoId(item))
                   /\ res.title = Str(UpstreamSnippetText(item, "title"))
                   /\ res.channel =
                        Str(UpstreamSnippetText(item, "channelTitle"))
                   /\ \A r \in {"default", "medium", "high"} :
                        IF UpstreamHasThumb(item, r)
                        THEN /\ r \in DOMAIN res.thumbnails.f
                             /\ res.thumbnails.f[r] =
                                  item.f.snippet.f.thumbnails.f[r].f.url
                        ELSE r \notin DOMAIN res.thumbnails.f

\* Two different items, the first with absent fields, came back in order.
C11_Witness ==
  /\ SearchSucceeded
  /\ UpstreamItems = <<SparseItem, FullItem>>
  /\ resp.statusCode = 200
  /\ Len(resp.body.value.f.results.a) = 2

(***************************************************************************)
(* C12: order of the checks                                                *)
(***************************************************************************)
CheckOrder == <<"options", "method", "license", "parse", "field", "key",
                "upstream">>

\* The first check of CheckOrder that the request fails ("upstream" when it
\* fails none and the upstream API is called).
FirstFailure(ev, penv) ==
  IF ev.httpMethod = "OPTIONS" THEN "options"
  ELSE IF ev.httpMethod # "POST" THEN "method"
  ELSE IF ~PassesGuard(ev, penv) THEN "license"
  ELSE IF ~BodyParses(ev) THEN "parse"
  ELSE IF ~FieldGood(ev) THEN "field"
  ELSE IF ~Truthy(ServerKey(ev.fn, penv)) THEN "key"
  ELSE "upstream"

\* The status and message with which each check answers.
CheckStatus(check) ==
  CASE check = "options" -> 200
    [] check = "method" -> 405
    [] check = "license" -> 401
    [] check = "parse" -> 400
    [] check = "field" -> 400
    [] check = "key" -> 500

CheckMessage(check, fn) ==
  CASE check = "method" -> {"Only POST requests are allowed"}
    [] check = "license" -> {"Missing authorization token",
                             "Invalid license token"}
    [] check = "parse" -> {"Invalid JSON in request body"}
    [] check = "field" -> {FieldMessage(fn)}
    [] check = "key" -> {"Server configuration error"}

Position(check) == CHOOSE i \in 1..Len(CheckOrder) : CheckOrder[i] = check

\* C12: the checks run in the order OPTIONS, non-POST, license, JSON parse,
\* required field, server key, upstream call, and the response is that of
\* the first check that fails: an unlicensed POST with a malformed body gets
\* 401, a licensed POST with an invalid body and no server key gets 400.
C12_FirstFailingCheck ==
  InFlight
  => LET first == FirstFailure(event, env)
     IN /\ trace = SubSeq(CheckOrder, 1, Position(first))
        /\ IF first = "upstream" THEN calls = 1
           ELSE /\ Returned
                /\ calls = 0
                /\ resp.statusCode = CheckStatus(first)
                /\ first # "options"
                     => resp.body.value.message \in
                          CheckMessage(first, event.fn)

(***************************************************************************)
(* C13: one upstream call at most, one response                            *)
(***************************************************************************)
\* C13: a request calls the upstream API at most once, and only as a POST
\* that passed the license guard with a valid body and a present server key;
\* the call is made when the request is taken up, never after the upstream
\* has answered (no retry); once the upstream has answered the request has
\* returned, and a request returns one response that is final.
C13_SingleUpstreamCall ==
  [][ /\ calls' \in {0, 1}
      /\ calls' = 1
           => /\ event'.httpMethod = "POST"
              /\ PassesGuard(event', env')
              /\ BodyParses(event')
              /\ FieldGood(event')
              /\ Truthy(ServerKey(event'.fn, env'))
      /\ calls' # calls => (pc = "idle" \/ pc' = "idle")
      /\ upstream' # None => (pc' = "done" /\ calls' = 1)
      /\ pc' = "done" => (pc # "done" /\ resp' # None)
      /\ pc = "done" => pc' = "idle" ]_vars

\* The upstream call of an aiCommand request failed: the request returned
\* after its single call.
C13_Witness ==
  /\ Returned
  /\ event.fn = "aiCommand"
  /\ upstream # None
  /\ upstream.kind = "reject"
  /\ calls = 1
  /\ resp.statusCode = 500

====
